---- MODULE Spec2Model ----
(***************************************************************************)
(* The PNG chunk codec of src/chunk.rs: Chunk::new, Chunk::as_bytes,       *)
(* Chunk::take_from and TryFrom<&Vec<u8>> for Chunk, with the CRC-32       *)
(* checksum they rely on.                                                  *)
(*                                                                         *)
(* A byte is a number in 0..255 and a byte buffer a sequence of bytes.     *)
(* TLC's integers are 32-bit signed, so a u32 is kept as two 16-bit limbs  *)
(* <<high, low>> and a (64-bit) usize as four, most significant first.     *)
(***************************************************************************)
EXTENDS Integers, Sequences, FiniteSets, TLC

VARIABLES
    chunks,     \* the Chunk values the caller built with Chunk::new, in order
    written,    \* how many of them the caller has serialized into buf
    buf,        \* the byte buffer handed to take_from / try_from
    fault,      \* what was done to buf after serialization, if anything
    offset,     \* where in buf the next chunk is parsed from
    res,        \* the outcome of the last take_from / try_from at offset
    walked,     \* the chunks take_from returned while walking buf
    vecLen,     \* data.len() of the Vec last given to Chunk::new, a usize
    newLength   \* the length field Chunk::new stored for it

vars == <<chunks, written, buf, fault, offset, res, walked, vecLen, newLength>>

(***************************************************************************)
(* Bounds of the model.                                                    *)
(***************************************************************************)
\* longest data passed to Chunk::new
MaxData == 1
\* longest buffer the caller assembles from serialized chunks
MaxBuf == 25
\* longest run of bytes that are no chunk appended after the chunks
MaxTail == 2
\* number of low limb values the sizes of SpecLen are drawn from
MaxLowLimb == 15

\* the chunk types Chunk::new is called with: "RuSt" and a type that is
\* not alphabetic
RuSt == <<82, 117, 83, 116>>
ChunkTypes == {RuSt, <<0, 255, 49, 116>>}
\* the data bytes and the bytes of a tail that is no chunk
DataBytes == {0, 255}
TailBytes == {0, 255}

None == [kind |-> "None"]

(***************************************************************************)
(* Fixed-width integers: u32 and usize in 16-bit limbs.                    *)
(***************************************************************************)
Limb == 2 ^ 16

RECURSIVE XorInt(_, _)
XorInt(a, b) ==
    IF a = 0 THEN b
    ELSE IF b = 0 THEN a
    ELSE ((a + b) % 2) + 2 * XorInt(a \div 2, b \div 2)

\* a ^ b on u32
Xor(a, b) == <<XorInt(a[1], b[1]), XorInt(a[2], b[2])>>

\* a >> 1 and a >> 8 on u32
Shr1(a) == <<a[1] \div 2, (a[1] % 2) * (Limb \div 2) + (a[2] \div 2)>>
Shr8(a) == <<a[1] \div 256, (a[1] % 256) * 256 + (a[2] \div 256)>>

\* a wrapping a - b on u32
U32Sub(a, b) ==
    LET borrow == IF a[2] < b[2] THEN 1 ELSE 0
    IN  <<(a[1] - b[1] - borrow + Limb) % Limb, (a[2] - b[2] + Limb) % Limb>>

\* a number below 2^31 as a u32 and as a usize, and back
U32Of(n) == <<n \div Limb, n % Limb>>
UsizeOf(n) == <<0, 0, n \div Limb, n % Limb>>
UsizeToNat(v) == v[3] * Limb + v[4]

U32FromLe(b) == <<b[4] * 256 + b[3], b[2] * 256 + b[1]>>

\* u32::from_be_bytes
U32FromBe(b) == <<b[1] * 256 + b[2], b[3] * 256 + b[4]>>

\* u32::to_be_bytes
U32ToBe(u) == <<u[1] \div 256, u[1] % 256, u[2] \div 256, u[2] % 256>>

\* `v as u32`: the low 32 bits of a usize
AsU32(v) == <<v[3], v[4]>>

\* `u as usize`: a u32 widened
AsUsize(u) == <<0, 0, u[1], u[2]>>

\* a + b on usize, wrapping
UsizeAdd(a, b) ==
    LET s4 == a[4] + b[4]
        s3 == a[3] + b[3] + (s4 \div Limb)
        s2 == a[2] + b[2] + (s3 \div Limb)
        s1 == a[1] + b[1] + (s2 \div Limb)
    IN  <<s1 % Limb, s2 % Limb, s3 % Limb, s4 % Limb>>

\* a <= b on usize
UsizeLe(a, b) ==
    \/ a = b
    \/ \E k \in 1..4 : a[k] < b[k] /\ \A j \in 1..(k - 1) : a[j] = b[j]

(***************************************************************************)
(* crc::crc32::checksum_ieee: table driven, reflected, polynomial          *)
(* 0xEDB88320, initial value and final xor 0xFFFFFFFF.                     *)
(***************************************************************************)
\* 0xEDB88320
IEEE == <<60856, 33568>>

AllOnes == <<Limb - 1, Limb - 1>>

CrcStep(v) == IF v[2] % 2 = 1 THEN Xor(Shr1(v), IEEE) ELSE Shr1(v)

\* entry i of the table: eight steps of i
CrcTableEntry(i) ==
    CrcStep(CrcStep(CrcStep(CrcStep(CrcStep(CrcStep(CrcStep(CrcStep(<<0, i>>))))))))

\* the 256-entry table
IEEE_TABLE == [i \in 0..255 |-> CrcTableEntry(i)]

\* one byte: table[(value as u8) ^ byte] ^ (value >> 8)
CrcByte(value, byte) == Xor(IEEE_TABLE[XorInt(value[2] % 256, byte)], Shr8(value))

RECURSIVE CrcUpdate(_, _)
CrcUpdate(value, bytes) ==
    IF bytes = <<>> THEN value
    ELSE CrcUpdate(CrcByte(value, Head(bytes)), Tail(bytes))

ChecksumSkipLast(bytes) ==
    Xor(CrcUpdate(AllOnes, SubSeq(bytes, 1, Len(bytes) - 1)), AllOnes)

ChecksumIeee(bytes) == Xor(CrcUpdate(AllOnes, bytes), AllOnes)

(***************************************************************************)
(* ChunkType (crate::chunk_type): four raw bytes; construction from a      *)
(* 4-byte array always succeeds and keeps the bytes verbatim.              *)
(***************************************************************************)
ChunkTypeTryFrom(b) == [ok |-> TRUE, value |-> [bytes |-> b]]

ChunkTypeBytes(ct) == ct.bytes

(***************************************************************************)
(* Chunk.                                                                  *)
(***************************************************************************)
Err == [kind |-> "Err", error |-> <<>>]

Panic(line) == [kind |-> "Panic", line |-> line]

FourBytesFromSlice(slice) ==
    IF Len(slice) = 4 THEN [ok |-> TRUE, value |-> slice] ELSE [ok |-> FALSE]

\* the length field of Chunk::new: data.len() as u32
NewLength(len) == AsU32(len)

ChunkNewCrcOfData(chunk_type, data) ==
    [length     |-> NewLength(UsizeOf(Len(data))),
     chunk_type |-> chunk_type,
     data       |-> data,
     crc        |-> ChecksumIeee(data)]

ChunkNew(chunk_type, data) ==
    LET data_for_crc == ChunkTypeBytes(chunk_type) \o data
    IN  [length     |-> NewLength(UsizeOf(Len(data))),
         chunk_type |-> chunk_type,
         data       |-> data,
         crc        |-> ChecksumIeee(data_for_crc)]

AsBytesTypeFirst(c) ==
    ChunkTypeBytes(c.chunk_type) \o U32ToBe(c.length) \o c.data \o U32ToBe(c.crc)

AsBytes(c) ==
    U32ToBe(c.length) \o ChunkTypeBytes(c.chunk_type) \o c.data \o U32ToBe(c.crc)

CrcAcceptedLowHalf(provided_crc, computed_crc) == provided_crc[2] = computed_crc[2]

\* the integrity gate: provided_crc == computed_crc
CrcAccepted(provided_crc, computed_crc) == provided_crc = computed_crc

BytesRemainingNoCrc(len, length) ==
    U32Sub(U32Sub(U32Sub(AsU32(len), U32Of(4)), U32Of(4)), length)

\* bytes.len() as u32 - 4 - 4 - length - 4
BytesRemaining(len, length) ==
    U32Sub(U32Sub(U32Sub(U32Sub(AsU32(len), U32Of(4)), U32Of(4)), length), U32Of(4))

TakeFrom(bytes) ==
    IF Len(bytes) < 12 THEN Err
    ELSE
    LET first_four_bytes  == FourBytesFromSlice(SubSeq(bytes, 1, 4))
        length            == U32FromBe(first_four_bytes.value)
        second_four_bytes == FourBytesFromSlice(SubSeq(bytes, 5, 8))
        chunk_type        == ChunkTypeTryFrom(second_four_bytes.value)
        crc_start         == UsizeAdd(UsizeOf(8), AsUsize(length))
        crc_end           == UsizeAdd(crc_start, UsizeOf(4))
        len               == UsizeOf(Len(bytes))
    IN  IF ~first_four_bytes.ok \/ ~second_four_bytes.ok \/ ~chunk_type.ok THEN Err
        \* &bytes[8..crc_start] past the end of the slice
        ELSE IF ~UsizeLe(crc_start, len) THEN Panic(75)
        \* &bytes[crc_start..crc_start + 4] past the end of the slice
        ELSE IF ~UsizeLe(crc_end, len) THEN Panic(76)
        ELSE
        LET cs           == UsizeToNat(crc_start)
            data         == SubSeq(bytes, 9, cs)
            provided_crc == U32FromBe(SubSeq(bytes, cs + 1, cs + 4))
            computed_crc == ChecksumIeee(SubSeq(bytes, 5, cs))
        IN  IF ~CrcAccepted(provided_crc, computed_crc) THEN Err
            ELSE [kind  |-> "Ok",
                  chunk |-> [length     |-> length,
                             chunk_type |-> chunk_type.value,
                             data       |-> data,
                             crc        |-> computed_crc],
                  bytes_remaining |-> BytesRemaining(len, length)]

TryFromLenient(bytes) ==
    LET t == TakeFrom(bytes)
    IN  IF t.kind = "Ok" THEN [kind |-> "Ok", chunk |-> t.chunk] ELSE t

\* impl TryFrom<&Vec<u8>> for Chunk
TryFrom(bytes) ==
    LET t == TakeFrom(bytes)
    IN  IF t.kind = "Ok"
        THEN IF t.bytes_remaining = U32Of(0)
             THEN [kind |-> "Ok", chunk |-> t.chunk]
             ELSE Err
        ELSE IF t.kind = "Panic" THEN t
        ELSE Err

(***************************************************************************)
(* The caller: builds chunks, serializes them one after the other into a   *)
(* buffer, and parses the buffer, which may have been damaged or extended  *)
(* in between.                                                             *)
(***************************************************************************)
NoFault == [kind |-> "None", at |-> 0, bit |-> 0]

\* the part of buf still to be parsed
Rest == SubSeq(buf, offset + 1, Len(buf))

RECURSIVE SeqsUpTo(_, _)
SeqsUpTo(S, n) ==
    IF n = 0 THEN {<<>>}
    ELSE LET shorter == SeqsUpTo(S, n - 1)
         IN  shorter \cup {Append(s, x) : s \in shorter, x \in S}

Building == fault = NoFault /\ res = None /\ offset = 0

RECURSIVE SerializedSize(_, _)
SerializedSize(cs, k) ==
    IF k = 0 THEN 0 ELSE SerializedSize(cs, k - 1) + 12 + Len(cs[k].data)

Init ==
    /\ chunks = <<>>
    /\ written = 0
    /\ buf = <<>>
    /\ fault = NoFault
    /\ offset = 0
    /\ res = None
    /\ walked = <<>>
    /\ vecLen = UsizeOf(0)
    /\ newLength = None

\* Chunk::new(chunk_type, data)
New(bytes, data) ==
    /\ Building
    /\ SerializedSize(chunks, Len(chunks)) + 12 + Len(data) <= MaxBuf
    /\ LET c == ChunkNew(ChunkTypeTryFrom(bytes).value, data)
       IN  /\ chunks' = Append(chunks, c)
           /\ vecLen' = UsizeOf(Len(data))
           /\ newLength' = c.length
    /\ UNCHANGED <<written, buf, fault, offset, res, walked>>

\* buf.extend(chunk.as_bytes()) for the next chunk
Serialize ==
    /\ Building
    /\ written < Len(chunks)
    /\ buf' = buf \o AsBytes(chunks[written + 1])
    /\ written' = written + 1
    /\ UNCHANGED <<chunks, fault, offset, res, walked, vecLen, newLength>>

\* bytes that are no chunk follow the serialized chunks
AppendTail(t) ==
    /\ Building
    /\ written = Len(chunks)
    /\ buf' = buf \o t
    /\ fault' = [kind |-> "Tail", at |-> Len(buf) + 1, bit |-> 0]
    /\ UNCHANGED <<chunks, written, offset, res, walked, vecLen, newLength>>

\* one bit of the buffer is flipped
FlipBit(i, k) ==
    /\ Building
    /\ written = Len(chunks)
    /\ buf' = [buf EXCEPT ![i] = XorInt(@, 2 ^ k)]
    /\ fault' = [kind |-> "Flip", at |-> i, bit |-> k]
    /\ UNCHANGED <<chunks, written, offset, res, walked, vecLen, newLength>>

\* the buffer is cut short
Truncate(n) ==
    /\ Building
    /\ written = Len(chunks)
    /\ buf' = SubSeq(buf, 1, n)
    /\ fault' = [kind |-> "Trunc", at |-> n, bit |-> 0]
    /\ UNCHANGED <<chunks, written, offset, res, walked, vecLen, newLength>>

\* Chunk::take_from(&buf[offset..])
TakeFromOp ==
    /\ res = None
    /\ res' = [op |-> "take_from", out |-> TakeFrom(Rest)]
    /\ UNCHANGED <<chunks, written, buf, fault, offset, walked, vecLen, newLength>>

\* Chunk::try_from(&buf[offset..].to_vec())
TryFromOp ==
    /\ res = None
    /\ res' = [op |-> "try_from", out |-> TryFrom(Rest)]
    /\ UNCHANGED <<chunks, written, buf, fault, offset, walked, vecLen, newLength>>

\* the caller keeps the chunk take_from returned and moves to the bytes
\* that remain
Advance ==
    /\ res # None
    /\ res.op = "take_from"
    /\ res.out.kind = "Ok"
    /\ offset' = Len(buf) - UsizeToNat(AsUsize(res.out.bytes_remaining))
    /\ walked' = Append(walked, res.out.chunk)
    /\ res' = None
    /\ UNCHANGED <<chunks, written, buf, fault, vecLen, newLength>>

Next ==
    \/ \E bytes \in ChunkTypes, data \in SeqsUpTo(DataBytes, MaxData) : New(bytes, data)
    \/ Serialize
    \/ \E t \in SeqsUpTo(TailBytes, MaxTail) \ {<<>>} : AppendTail(t)
    \/ \E i \in 1..Len(buf), k \in 0..7 : FlipBit(i, k)
    \/ \E n \in 0..(Len(buf) - 1) : Truncate(n)
    \/ TakeFromOp
    \/ TryFromOp
    \/ Advance

Spec == Init /\ [][Next]_vars

(***************************************************************************)
(* Chunk::new on a Vec of a given size: only the length field, which       *)
(* depends on nothing but data.len().  The sizes straddle 2^16 and 2^32.   *)
(***************************************************************************)
VecSizes ==
    {<<0, upper, high, low>> : upper \in {0, 1}, high \in {0, 1, Limb - 1},
                               low \in 0..MaxLowLimb}

InitLen ==
    /\ chunks = <<>>
    /\ written = 0
    /\ buf = <<>>
    /\ fault = NoFault
    /\ offset = 0
    /\ res = None
    /\ walked = <<>>
    /\ vecLen \in VecSizes
    /\ newLength = None

\* Chunk::new(chunk_type, data) with data.len() = vecLen
NewSized ==
    /\ newLength = None
    /\ newLength' = NewLength(vecLen)
    /\ UNCHANGED <<chunks, written, buf, fault, offset, res, walked, vecLen>>

NextLen == NewSized

SpecLen == InitLen /\ [][NextLen]_vars

(***************************************************************************)
(* What the properties speak about.                                        *)
(***************************************************************************)
Took == res # None /\ res.op = "take_from"

Tried == res # None /\ res.op = "try_from"

\* every Chunk value that exists
AllChunks ==
    {chunks[i] : i \in 1..Len(chunks)} \cup {walked[i] : i \in 1..Len(walked)}
    \cup (IF res # None /\ res.out.kind = "Ok" THEN {res.out.chunk} ELSE {})

SameFields(c, d) ==
    /\ c.length = d.length
    /\ ChunkTypeBytes(c.chunk_type) = ChunkTypeBytes(d.chunk_type)
    /\ c.data = d.data
    /\ c.crc = d.crc

IsPrefix(p, q) == Len(p) <= Len(q) /\ SubSeq(q, 1, Len(p)) = p

\* the length field of an input of at least four bytes
Declared(bytes) == U32FromBe(SubSeq(bytes, 1, 4))

\* the declared length leaves room for the data and the CRC field
Fits(bytes) == Declared(bytes)[1] = 0 /\ 12 + Declared(bytes)[2] <= Len(bytes)

\* the CRC field agrees with the CRC-32 of the type and data bytes
CrcFieldMatches(bytes) ==
    LET l == Declared(bytes)[2]
    IN  SubSeq(bytes, 9 + l, 12 + l) = U32ToBe(ChecksumIeee(SubSeq(bytes, 5, 8 + l)))

\* the first check an input fails, in the order the checks are listed
FailedCheck(bytes, op) ==
    IF Len(bytes) < 12 THEN "TooShort"
    ELSE IF ~Fits(bytes) THEN "TruncatedData"
    ELSE IF ~CrcFieldMatches(bytes) THEN "CrcMismatch"
    ELSE IF op = "try_from" /\ Len(bytes) > 12 + Declared(bytes)[2] THEN "TrailingData"
    ELSE "None"

\* the first byte of buf that is not as the caller serialized it
DamagedFrom ==
    IF fault.kind = "None" THEN Len(buf) + 1
    ELSE IF fault.kind = "Trunc" THEN fault.at + 1
    ELSE fault.at

(***************************************************************************)
(* C1. Round trip: take_from applied to the serialization of a chunk built *)
(* by Chunk::new succeeds and returns a chunk with the same length, type   *)
(* bytes, data and crc.                                                    *)
(***************************************************************************)
C1_RoundTrip ==
    \A i \in 1..Len(chunks) :
        (Took /\ Rest = AsBytes(chunks[i]))
            => /\ res.out.kind = "Ok"
               /\ SameFields(res.out.chunk, chunks[i])

C1_Witness ==
    /\ Took /\ Len(chunks) = 1 /\ Rest = AsBytes(chunks[1])
    /\ chunks[1].data # <<>>
    /\ ChunkTypeBytes(chunks[1].chunk_type) # RuSt
    /\ res.out.kind = "Ok"

(***************************************************************************)
(* C2. Integrity gate: on an input of at least 12 bytes whose declared     *)
(* length fits, a CRC field that differs from the CRC-32 of bytes          *)
(* [4, 8+length) makes take_from and try_from return the error; no chunk   *)
(* is produced.                                                            *)
(***************************************************************************)
C2_IntegrityGate ==
    (res # None /\ Len(Rest) >= 12 /\ Fits(Rest) /\ ~CrcFieldMatches(Rest))
        => res.out = Err

C2_Witness ==
    /\ Tried /\ fault.kind = "Flip" /\ offset = 0
    /\ Len(Rest) >= 12 /\ Fits(Rest)
    /\ fault.at > 8 + Declared(Rest)[2]
    /\ res.out = Err

(***************************************************************************)
(* C3. Truncated input: on an input of at least 12 bytes whose declared    *)
(* length makes the CRC field end past the input, take_from returns an     *)
(* Err result; it does not panic.                                          *)
(***************************************************************************)
C3_TruncatedIsErr ==
    (Took /\ Len(Rest) >= 12 /\ ~Fits(Rest)) => res.out.kind = "Err"

(***************************************************************************)
(* C4. Strict single-chunk parse: try_from returns Ok exactly when         *)
(* take_from succeeds with bytes_remaining = 0, which is when the input is *)
(* exactly 12 + declared length bytes with a matching CRC; with bytes      *)
(* remaining it returns the error and the chunk is dropped; when take_from *)
(* fails, try_from fails.                                                  *)
(***************************************************************************)
C4_StrictParse ==
    Tried =>
        LET t == TakeFrom(Rest)
        IN  /\ res.out.kind = "Ok" <=> (t.kind = "Ok" /\ t.bytes_remaining = U32Of(0))
            /\ res.out.kind = "Ok" =>
                   /\ res.out.chunk = t.chunk
                   /\ Len(Rest) = 12 + Declared(Rest)[2]
                   /\ Declared(Rest)[1] = 0
            /\ (Len(Rest) >= 12 /\ Fits(Rest) /\ CrcFieldMatches(Rest)
                  /\ Len(Rest) = 12 + Declared(Rest)[2]) => res.out.kind = "Ok"
            /\ (t.kind = "Ok" /\ t.bytes_remaining # U32Of(0)) => res.out = Err
            /\ t.kind = "Err" => res.out = Err
            /\ t.kind # "Ok" => res.out.kind # "Ok"

C4_Witness ==
    /\ Tried /\ res.out = Err
    /\ TakeFrom(Rest).kind = "Ok"
    /\ TakeFrom(Rest).bytes_remaining # U32Of(0)

(***************************************************************************)
(* C5. Remainder: on a chunk's serialization followed by any bytes t,      *)
(* take_from succeeds, returns that chunk and reports bytes_remaining =    *)
(* len(t), whatever t holds; taking again at offset len - bytes_remaining  *)
(* walks the serialized chunks in order.                                   *)
(***************************************************************************)
C5_Remainder ==
    /\ \A i \in 1..Len(chunks) :
          (Took /\ IsPrefix(AsBytes(chunks[i]), Rest))
              => /\ res.out.kind = "Ok"
                 /\ SameFields(res.out.chunk, chunks[i])
                 /\ res.out.bytes_remaining = U32Of(Len(Rest) - Len(AsBytes(chunks[i])))
    /\ \A j \in 1..Len(walked) :
          (j <= written /\ SerializedSize(chunks, j) < DamagedFrom)
              => /\ walked[j] = chunks[j]
                 /\ (j = Len(walked) => offset = SerializedSize(chunks, j))
    /\ (Took /\ Len(walked) < written
          /\ SerializedSize(chunks, Len(walked) + 1) < DamagedFrom
          /\ SerializedSize(chunks, Len(walked)) = offset)
          => res.out.kind = "Ok" /\ res.out.chunk = chunks[Len(walked) + 1]

C5_Witness ==
    /\ Took /\ offset > 0 /\ Len(chunks) = 2
    /\ walked = <<chunks[1]>>
    /\ fault.kind = "Tail"
    /\ res.out.kind = "Ok"
    /\ res.out.chunk = chunks[2]
    /\ res.out.bytes_remaining = U32Of(2)

(***************************************************************************)
(* C6. Failures are distinguishable and ordered: whenever a check fails    *)
(* the outcome is an error value, and two inputs that fail different       *)
(* checks (TooShort, TruncatedData, CrcMismatch, TrailingData, in that     *)
(* order) never get the same error value.  The input is compared with each *)
(* of its own prefixes.                                                    *)
(***************************************************************************)
C6_DistinctErrors ==
    res # None =>
        /\ FailedCheck(Rest, res.op) # "None" => res.out.kind = "Err"
        /\ \A n \in 0..Len(Rest) :
              LET shorter == SubSeq(Rest, 1, n)
                  out     == IF res.op = "take_from" THEN TakeFrom(shorter)
                             ELSE TryFrom(shorter)
              IN  ( /\ FailedCheck(Rest, res.op) # "None"
                    /\ FailedCheck(shorter, res.op) # "None"
                    /\ FailedCheck(Rest, res.op) # FailedCheck(shorter, res.op) )
                      => res.out # out

(***************************************************************************)
(* C7. CRC sensitivity: with one bit flipped in the type bytes or the data *)
(* bytes of a serialized chunk, and the length and CRC fields untouched,   *)
(* take_from on it fails at the CRC comparison.                            *)
(***************************************************************************)
C7_CrcSensitivity ==
    LET i     == Len(walked) + 1
        start == SerializedSize(chunks, Len(walked))
    IN  ( /\ Took /\ fault.kind = "Flip"
          /\ i <= written
          /\ offset = start
          /\ fault.at > start + 4
          /\ fault.at <= start + 8 + Len(chunks[i].data) )
            => /\ res.out = Err
               /\ FailedCheck(Rest, "take_from") = "CrcMismatch"

C7_Witness ==
    /\ Took /\ fault.kind = "Flip" /\ offset = 0 /\ written = 1
    /\ fault.at = 9 /\ fault.bit = 7
    /\ Len(chunks[1].data) = 1
    /\ res.out = Err

(***************************************************************************)
(* C8. Length invariant: every Chunk has length() equal to the number of   *)
(* bytes of its data, and the length field Chunk::new stores is the size   *)
(* of the data it was given, never a truncation of it.                     *)
(***************************************************************************)
C8_LengthIsDataLen ==
    /\ \A c \in AllChunks : AsUsize(c.length) = UsizeOf(Len(c.data))
    /\ newLength # None => AsUsize(newLength) = vecLen

(***************************************************************************)
(* C9. CRC invariant: every Chunk has crc equal to the CRC-32 of its four  *)
(* type bytes followed by its data, and once a Chunk exists no operation   *)
(* changes it.                                                             *)
(***************************************************************************)
CrcHolds ==
    \A c \in AllChunks : c.crc = ChecksumIeee(ChunkTypeBytes(c.chunk_type) \o c.data)

ChunksKept ==
    /\ \A i \in 1..Len(chunks) : Len(chunks') >= i /\ chunks'[i] = chunks[i]
    /\ \A j \in 1..Len(walked) : Len(walked') >= j /\ walked'[j] = walked[j]

C9_CrcInvariant == []CrcHolds /\ [][ChunksKept]_vars

C9_Witness ==
    /\ Tried /\ res.out.kind = "Ok"
    /\ res.out.chunk.data # <<>>
    /\ Len(walked) = 1
    /\ Len(chunks) = 2

(***************************************************************************)
(* C10. Wire layout: a chunk take_from returns has length = big-endian     *)
(* bytes [0,4), type bytes = bytes [4,8), data = bytes [8,8+length) and    *)
(* crc = big-endian bytes [8+length,12+length) of the input; as_bytes      *)
(* emits the same four fields in that order, 12 + length bytes in all.     *)
(***************************************************************************)
C10_WireLayout ==
    /\ (Took /\ res.out.kind = "Ok") =>
          LET c == res.out.chunk
              l == UsizeToNat(AsUsize(c.length))
          IN  /\ c.length = U32FromBe(SubSeq(Rest, 1, 4))
              /\ ChunkTypeBytes(c.chunk_type) = SubSeq(Rest, 5, 8)
              /\ c.data = SubSeq(Rest, 9, 8 + l)
              /\ c.crc = U32FromBe(SubSeq(Rest, 9 + l, 12 + l))
              /\ 12 + l <= Len(Rest)
    /\ \A c \in AllChunks :
          LET out == AsBytes(c)
              l   == UsizeToNat(AsUsize(c.length))
          IN  /\ Len(out) = 12 + l
              /\ SubSeq(out, 1, 4) = U32ToBe(c.length)
              /\ SubSeq(out, 5, 8) = ChunkTypeBytes(c.chunk_type)
              /\ SubSeq(out, 9, 8 + l) = c.data
              /\ SubSeq(out, 9 + l, 12 + l) = U32ToBe(c.crc)

C10_Witness ==
    /\ Took /\ res.out.kind = "Ok"
    /\ fault.kind = "Flip"
    /\ res.out.chunk.data # <<>>
    /\ Len(Rest) > 12 + Len(res.out.chunk.data)

====
